---------------------------- MODULE Spec2Model ----------------------------
(***************************************************************************)
(* Model of src/lib.rs: the CompactSize / OutPoint / Script /              *)
(* TransactionInput / BitcoinTransaction binary codec and the Txid text    *)
(* constructor.                                                            *)
(*                                                                         *)
(* Numbers.  A byte is an integer 0..255.  TLC's integers are 32 bits      *)
(* wide, so a u64 is kept as four 16-bit limbs, least significant first,   *)
(* and a u32 as two; to_le_bytes / from_le_bytes convert between limbs and *)
(* bytes.  A usize is a u64 whose value is below 2^usize_bits.             *)
(* Buffer lengths and offsets that the code has already bounded by a       *)
(* buffer length are plain integers.                                       *)
(*                                                                         *)
(* Builds.  `a + b` on usize panics when overflow checks are on (debug     *)
(* profile) and wraps when they are off (release profile); `x as usize`    *)
(* keeps the low usize_bits bits.  Both are properties of the build, so a  *)
(* build is a record [overflow_checks, usize_bits] and every decode is     *)
(* evaluated under one build.                                              *)
(***************************************************************************)
EXTENDS Integers, Sequences, FiniteSets

\* ------------------------------------------------------------------------
\* Fixed-width integers
\* ------------------------------------------------------------------------

Limb == 256 * 256

\* a small integer as u64 (`n as u64`, n a length or a byte)
U64(n) == <<n % Limb, (n \div Limb) % Limb, 0, 0>>

U64Lt(a, b) ==
    \/ a[4] < b[4]
    \/ a[4] = b[4] /\ a[3] < b[3]
    \/ a[4] = b[4] /\ a[3] = b[3] /\ a[2] < b[2]
    \/ a[4] = b[4] /\ a[3] = b[3] /\ a[2] = b[2] /\ a[1] < b[1]

U64Le(a, b) == a = b \/ U64Lt(a, b)

\* the integer a u64 stands for, when it is below 2^31
ToInt(a) == a[1] + Limb * a[2]

\* `value as u8`, `value as u16`, `value as u32`: the low bits
as_u8(value) == value[1] % 256

as_u16(value) == value[1]

as_u32(value) == <<value[1], value[2]>>

\* `x as u64` for a u16 and for a u32
u16_as_u64(x) == <<x, 0, 0, 0>>

u32_as_u64(x) == <<x[1], x[2], 0, 0>>

\* to_le_bytes
u16_to_le_bytes(x) == <<x % 256, x \div 256>>

u32_to_le_bytes(x) == u16_to_le_bytes(x[1]) \o u16_to_le_bytes(x[2])

u64_to_le_bytes(x) ==
    u16_to_le_bytes(x[1]) \o u16_to_le_bytes(x[2]) \o
    u16_to_le_bytes(x[3]) \o u16_to_le_bytes(x[4])

\* from_le_bytes, on an array of exactly 2, 4, 8 bytes
u16_from_le_bytes(b) == b[1] + 256 * b[2]

u32_from_le_bytes(b) ==
    <<u16_from_le_bytes(<<b[1], b[2]>>), u16_from_le_bytes(<<b[3], b[4]>>)>>

u64_from_le_bytes(b) ==
    <<u16_from_le_bytes(<<b[1], b[2]>>), u16_from_le_bytes(<<b[3], b[4]>>),
      u16_from_le_bytes(<<b[5], b[6]>>), u16_from_le_bytes(<<b[7], b[8]>>)>>

\* ------------------------------------------------------------------------
\* Builds: overflow checks and pointer width
\* ------------------------------------------------------------------------

Builds ==
    { [overflow_checks |-> TRUE,  usize_bits |-> 64],
      [overflow_checks |-> FALSE, usize_bits |-> 64],
      [overflow_checks |-> TRUE,  usize_bits |-> 32],
      [overflow_checks |-> FALSE, usize_bits |-> 32] }

\* `value as usize`
as_usize(value, build) ==
    IF build.usize_bits = 64 THEN value ELSE <<value[1], value[2], 0, 0>>

\* a + b on usize: [sum |-> the wrapped sum, overflow |-> whether it wrapped]
usize_add(a, b, build) ==
    LET s1 == a[1] + b[1]
        s2 == a[2] + b[2] + s1 \div Limb
        s3 == a[3] + b[3] + s2 \div Limb
        s4 == a[4] + b[4] + s3 \div Limb
    IN  IF build.usize_bits = 64
        THEN [sum |-> <<s1 % Limb, s2 % Limb, s3 % Limb, s4 % Limb>>,
              overflow |-> s4 >= Limb]
        ELSE [sum |-> <<s1 % Limb, s2 % Limb, 0, 0>>,
              overflow |-> s2 >= Limb]

\* ------------------------------------------------------------------------
\* Results
\* ------------------------------------------------------------------------

Ok(v, n) == [tag |-> "Ok", value |-> v, consumed |-> n]

Err(e) == [tag |-> "Err", error |-> e]

\* the call does not return: the thread unwinds or aborts
Panic(m) == [tag |-> "Panic", msg |-> m]

InsufficientBytes == "InsufficientBytes"

InvalidFormat == "InvalidFormat"

BitcoinError == {InsufficientBytes, InvalidFormat}

\* bytes[i], Rust's zero-based index
At(bytes, i) == bytes[i + 1]

\* bytes[a..b], for 0 <= a <= b <= bytes.len()
Slice(bytes, a, b) == SubSeq(bytes, a + 1, b)

\* ------------------------------------------------------------------------
\* CompactSize
\* ------------------------------------------------------------------------

CompactSize_new(value) == [value |-> value]

\* an encoder whose one-byte class reaches one value too far
CompactSize_to_bytes_off_by_one(self) ==
    LET value == self.value IN
    IF U64Le(value, U64(253))
    THEN <<as_u8(value)>>
    ELSE IF U64Le(value, <<65535, 0, 0, 0>>)
    THEN <<253>> \o u16_to_le_bytes(as_u16(value))
    ELSE IF U64Le(value, <<65535, 65535, 0, 0>>)
    THEN <<254>> \o u32_to_le_bytes(as_u32(value))
    ELSE <<255>> \o u64_to_le_bytes(value)

CompactSize_to_bytes(self) ==
    LET value == self.value IN
    IF U64Le(value, U64(252))
    THEN <<as_u8(value)>>
    ELSE IF U64Le(value, <<65535, 0, 0, 0>>)
    THEN <<253>> \o u16_to_le_bytes(as_u16(value))
    ELSE IF U64Le(value, <<65535, 65535, 0, 0>>)
    THEN <<254>> \o u32_to_le_bytes(as_u32(value))
    ELSE <<255>> \o u64_to_le_bytes(value)

\* a decoder that refuses a value written in a wider class than it needs
CompactSize_from_bytes_minimal_only(bytes) ==
    IF Len(bytes) = 0 THEN Err(InsufficientBytes)
    ELSE
    LET first_byte == At(bytes, 0) IN
    IF first_byte <= 252
    THEN Ok(CompactSize_new(U64(first_byte)), 1)
    ELSE IF first_byte = 253
    THEN IF Len(bytes) < 3 THEN Err(InsufficientBytes)
         ELSE IF At(bytes, 2) = 0 /\ At(bytes, 1) < 253 THEN Err(InvalidFormat)
         ELSE Ok(CompactSize_new(u16_as_u64(
                     u16_from_le_bytes(<<At(bytes, 1), At(bytes, 2)>>))), 3)
    ELSE IF first_byte = 254
    THEN IF Len(bytes) < 5 THEN Err(InsufficientBytes)
         ELSE IF At(bytes, 3) = 0 /\ At(bytes, 4) = 0 THEN Err(InvalidFormat)
         ELSE Ok(CompactSize_new(u32_as_u64(
                     u32_from_le_bytes(<<At(bytes, 1), At(bytes, 2),
                                         At(bytes, 3), At(bytes, 4)>>))), 5)
    ELSE IF Len(bytes) < 9 THEN Err(InsufficientBytes)
         ELSE Ok(CompactSize_new(
                     u64_from_le_bytes(<<At(bytes, 1), At(bytes, 2),
                                         At(bytes, 3), At(bytes, 4),
                                         At(bytes, 5), At(bytes, 6),
                                         At(bytes, 7), At(bytes, 8)>>)), 9)

CompactSize_from_bytes(bytes) ==
    IF Len(bytes) = 0 THEN Err(InsufficientBytes)
    ELSE
    LET first_byte == At(bytes, 0) IN
    IF first_byte <= 252
    THEN Ok(CompactSize_new(U64(first_byte)), 1)
    ELSE IF first_byte = 253
    THEN IF Len(bytes) < 3 THEN Err(InsufficientBytes)
         ELSE Ok(CompactSize_new(u16_as_u64(
                     u16_from_le_bytes(<<At(bytes, 1), At(bytes, 2)>>))), 3)
    ELSE IF first_byte = 254
    THEN IF Len(bytes) < 5 THEN Err(InsufficientBytes)
         ELSE Ok(CompactSize_new(u32_as_u64(
                     u32_from_le_bytes(<<At(bytes, 1), At(bytes, 2),
                                         At(bytes, 3), At(bytes, 4)>>))), 5)
    ELSE IF Len(bytes) < 9 THEN Err(InsufficientBytes)
         ELSE Ok(CompactSize_new(
                     u64_from_le_bytes(<<At(bytes, 1), At(bytes, 2),
                                         At(bytes, 3), At(bytes, 4),
                                         At(bytes, 5), At(bytes, 6),
                                         At(bytes, 7), At(bytes, 8)>>)), 9)

\* ------------------------------------------------------------------------
\* Txid: the text constructor (serde Deserialize) and its inverse
\* ------------------------------------------------------------------------

TxidLen == 32

HexDigits == <<"0", "1", "2", "3", "4", "5", "6", "7",
               "8", "9", "a", "b", "c", "d", "e", "f">>

HexUpper == <<"A", "B", "C", "D", "E", "F">>

\* hex::encode: two lower-case digits per byte, high nibble first
RECURSIVE hex_encode(_)
hex_encode(bytes) ==
    IF bytes = <<>> THEN <<>>
    ELSE <<HexDigits[(Head(bytes) \div 16) + 1], HexDigits[(Head(bytes) % 16) + 1]>>
         \o hex_encode(Tail(bytes))

IsHexChar(c) ==
    \/ \E i \in 1..16 : HexDigits[i] = c
    \/ \E i \in 1..6 : HexUpper[i] = c

HexVal(c) ==
    IF \E i \in 1..16 : HexDigits[i] = c
    THEN (CHOOSE i \in 1..16 : HexDigits[i] = c) - 1
    ELSE (CHOOSE i \in 1..6 : HexUpper[i] = c) + 9

\* hex::decode: odd length and non-hex characters are errors
hex_decode(s) ==
    IF Len(s) % 2 # 0 THEN [tag |-> "Err", error |-> "OddLength"]
    ELSE IF \E i \in 1..Len(s) : ~IsHexChar(s[i])
    THEN [tag |-> "Err", error |-> "InvalidHexCharacter"]
    ELSE [tag |-> "Ok",
          value |-> [i \in 1..(Len(s) \div 2) |->
                        16 * HexVal(s[2 * i - 1]) + HexVal(s[2 * i])]]

\* serde::de::Error::custom(msg): the deserializer's own error type
DeError(msg) == [tag |-> "Err", error |-> "serde::de::Error::custom", msg |-> msg]

Txid_serialize(self) == [kind |-> "str", str |-> hex_encode(self)]

\* a constructor that only refuses texts that are too short
Txid_deserialize_at_least(input) ==
    IF input.kind # "str" THEN DeError("invalid type")
    ELSE
    LET hex_string == input.str
        decoded == hex_decode(hex_string) IN
    IF decoded.tag # "Ok" THEN DeError(decoded.error)
    ELSE
    LET bytes == decoded.value IN
    IF Len(bytes) < TxidLen THEN DeError("Invalid txid length")
    ELSE [tag |-> "Ok", value |-> [i \in 1..TxidLen |-> bytes[i]]]

\* input: what the deserializer holds, [kind |-> "str", str |-> text] or
\* something that is not a string
Txid_deserialize(input) ==
    IF input.kind # "str" THEN DeError("invalid type")
    ELSE
    LET hex_string == input.str
        decoded == hex_decode(hex_string) IN
    IF decoded.tag # "Ok" THEN DeError(decoded.error)
    ELSE
    LET bytes == decoded.value IN
    IF Len(bytes) # TxidLen THEN DeError("Invalid txid length")
    ELSE [tag |-> "Ok", value |-> [i \in 1..TxidLen |-> bytes[i]]]

\* ------------------------------------------------------------------------
\* OutPoint
\* ------------------------------------------------------------------------

OutPointLen == 36

OutPoint_new(txid, vout) == [txid |-> txid, vout |-> vout]

OutPoint_to_bytes(self) == self.txid \o u32_to_le_bytes(self.vout)

\* a decoder that reports a short buffer as the other error kind
OutPoint_from_bytes_wrong_kind(bytes) ==
    IF Len(bytes) < OutPointLen THEN Err(InvalidFormat)
    ELSE
    LET txid == Slice(bytes, 0, TxidLen)
        vout == u32_from_le_bytes(<<At(bytes, 32), At(bytes, 33),
                                    At(bytes, 34), At(bytes, 35)>>)
    IN  Ok(OutPoint_new(txid, vout), OutPointLen)

OutPoint_from_bytes(bytes) ==
    IF Len(bytes) < OutPointLen THEN Err(InsufficientBytes)
    ELSE
    LET txid == Slice(bytes, 0, TxidLen)
        vout == u32_from_le_bytes(<<At(bytes, 32), At(bytes, 33),
                                    At(bytes, 34), At(bytes, 35)>>)
    IN  Ok(OutPoint_new(txid, vout), OutPointLen)

\* ------------------------------------------------------------------------
\* Script
\* ------------------------------------------------------------------------

Script_new(bytes) == [bytes |-> bytes]

Script_to_bytes(self) ==
    LET length == CompactSize_new(U64(Len(self.bytes)))
    IN  CompactSize_to_bytes(length) \o self.bytes

Script_from_bytes(bytes, build) ==
    LET r == CompactSize_from_bytes(bytes) IN
    IF r.tag # "Ok" THEN r
    ELSE
    LET length_consumed == r.consumed
        script_length == as_usize(r.value.value, build)
        end == usize_add(U64(length_consumed), script_length, build)
    IN
    IF end.overflow /\ build.overflow_checks
    THEN Panic("attempt to add with overflow")
    ELSE IF U64Lt(U64(Len(bytes)), end.sum)
    THEN Err(InsufficientBytes)
    ELSE IF U64Lt(end.sum, U64(length_consumed))
    THEN Panic("slice index starts after its end")
    ELSE
    LET total_consumed == ToInt(end.sum)
        script_bytes == Slice(bytes, length_consumed, total_consumed)
    IN  Ok(Script_new(script_bytes), total_consumed)

\* ------------------------------------------------------------------------
\* TransactionInput
\* ------------------------------------------------------------------------

SequenceLen == 4

TransactionInput_new(previous_output, script_sig, sequence) ==
    [previous_output |-> previous_output,
     script_sig |-> script_sig,
     sequence |-> sequence]

TransactionInput_to_bytes(self) ==
    OutPoint_to_bytes(self.previous_output) \o
    Script_to_bytes(self.script_sig) \o
    u32_to_le_bytes(self.sequence)

\* a decoder that reads the sequence number and does not advance past it
TransactionInput_from_bytes_sequence_not_counted(bytes, build) ==
    LET o == OutPoint_from_bytes(Slice(bytes, 0, Len(bytes))) IN
    IF o.tag # "Ok" THEN o
    ELSE
    LET offset1 == o.consumed
        s == Script_from_bytes(Slice(bytes, offset1, Len(bytes)), build) IN
    IF s.tag # "Ok" THEN s
    ELSE
    LET offset == offset1 + s.consumed IN
    IF Len(bytes) < offset + SequenceLen THEN Err(InsufficientBytes)
    ELSE
    LET sequence == u32_from_le_bytes(<<At(bytes, offset), At(bytes, offset + 1),
                                        At(bytes, offset + 2), At(bytes, offset + 3)>>)
    IN  Ok(TransactionInput_new(o.value, s.value, sequence), offset)

TransactionInput_from_bytes(bytes, build) ==
    LET o == OutPoint_from_bytes(Slice(bytes, 0, Len(bytes))) IN
    IF o.tag # "Ok" THEN o
    ELSE
    LET offset1 == o.consumed
        s == Script_from_bytes(Slice(bytes, offset1, Len(bytes)), build) IN
    IF s.tag # "Ok" THEN s
    ELSE
    LET offset == offset1 + s.consumed IN
    IF Len(bytes) < offset + SequenceLen THEN Err(InsufficientBytes)
    ELSE
    LET sequence == u32_from_le_bytes(<<At(bytes, offset), At(bytes, offset + 1),
                                        At(bytes, offset + 2), At(bytes, offset + 3)>>)
    IN  Ok(TransactionInput_new(o.value, s.value, sequence), offset + SequenceLen)

\* ------------------------------------------------------------------------
\* BitcoinTransaction: encoding
\* ------------------------------------------------------------------------

BitcoinTransaction_new(version, inputs, lock_time) ==
    [version |-> version, inputs |-> inputs, lock_time |-> lock_time]

RECURSIVE InputsBytes(_)
InputsBytes(inputs) ==
    IF inputs = <<>> THEN <<>>
    ELSE TransactionInput_to_bytes(Head(inputs)) \o InputsBytes(Tail(inputs))

BitcoinTransaction_to_bytes(self) ==
    LET input_count == CompactSize_new(U64(Len(self.inputs)))
    IN  u32_to_le_bytes(self.version) \o
        CompactSize_to_bytes(input_count) \o
        InputsBytes(self.inputs) \o
        u32_to_le_bytes(self.lock_time)

\* ------------------------------------------------------------------------
\* Inputs: the values and buffers the operations are applied to
\* ------------------------------------------------------------------------

MaxScriptLen == 2

MaxInputs == 2

MaxTrailing == 2

MaxHeld == 1

\* payload bytes seed+1, seed+2, ...: no two positions alike
Pattern(n, seed) == [k \in 1..n |-> (seed + k) % 256]

U32Vals == { <<0, 0>>, <<772, 258>>, <<65535, 65535>> }

U64Vals ==
    { U64(0), U64(1), U64(10), U64(252), U64(253), U64(254), U64(255), U64(256),
      <<65535, 0, 0, 0>>, <<0, 1, 0, 0>>, <<772, 258, 0, 0>>,
      <<65535, 65535, 0, 0>>, <<0, 0, 1, 0>>, <<2, 0, 1, 0>>,
      <<1800, 1286, 772, 258>>, <<65527, 65535, 65535, 65535>>,
      <<65535, 65535, 65535, 65535>> }

Txids == { Pattern(TxidLen, 0), [k \in 1..TxidLen |-> 0] }

OutPoints == { OutPoint_new(Pattern(TxidLen, 0), <<772, 258>>),
               OutPoint_new([k \in 1..TxidLen |-> 0], <<65535, 65535>>) }

Scripts == { Script_new(Pattern(n, 170)) : n \in 0..MaxScriptLen }

\* payloads around the one-byte / three-byte length prefix boundary
LongScripts == { Script_new(Pattern(n, 16)) : n \in {252, 253, 300} }

TransactionInputs ==
    { TransactionInput_new(OutPoint_new(Pattern(TxidLen, 0), <<772, 258>>),
                           Script_new(Pattern(MaxScriptLen, 170)), <<65535, 65535>>),
      TransactionInput_new(OutPoint_new([k \in 1..TxidLen |-> 0], <<65535, 65535>>),
                           Script_new(<<>>), <<0, 0>>),
      TransactionInput_new(OutPoint_new(Pattern(TxidLen, 64), <<0, 0>>),
                           Script_new(Pattern(1, 170)), <<772, 258>>) }

SeqsUpTo(S, n) == UNION { [1..m -> S] : m \in 0..n }

BitcoinTransactions ==
    { BitcoinTransaction_new(vl[1], ins, vl[2]) :
        vl \in { <<(<<1, 0>>), (<<0, 0>>)>>, <<(<<772, 258>>), (<<65535, 65535>>)>> },
        ins \in SeqsUpTo(TransactionInputs, MaxInputs) }

\* trailing bytes
Trailings == UNION { [1..m -> {0, 255}] : m \in 1..MaxTrailing }

\* A CompactSize as it may stand on the wire: any value in any of the four
\* classes wide enough for it, minimal or not.
Width == {1, 3, 5, 9}

FitsWidth(value, width) ==
    CASE width = 1 -> U64Le(value, U64(252))
      [] width = 3 -> U64Le(value, <<65535, 0, 0, 0>>)
      [] width = 5 -> U64Le(value, <<65535, 65535, 0, 0>>)
      [] OTHER -> TRUE

CSForms == { f \in [value : U64Vals, width : Width] : FitsWidth(f.value, f.width) }

FormBytes(f) ==
    IF f.width = 1 THEN <<f.value[1]>>
    ELSE <<252 + (CHOOSE m \in 1..3 : 2 ^ m + 1 = f.width)>> \o
         SubSeq(u64_to_le_bytes(f.value), 1, f.width - 1)

\* A script on the wire: any length prefix before any payload.
WireScripts == [prefix : CSForms, payload : { s.bytes : s \in Scripts }]

WireScriptBytes(w) == FormBytes(w.prefix) \o w.payload

\* An input on the wire whose script prefix declares at least its payload.
WireInputForms ==
    { [value |-> U64(1), width |-> 1], [value |-> U64(1), width |-> 3],
      [value |-> U64(1), width |-> 9], [value |-> U64(10), width |-> 1],
      [value |-> <<65535, 65535, 0, 0>>, width |-> 5],
      [value |-> <<1, 0, 1, 0>>, width |-> 9],
      [value |-> <<65527, 65535, 65535, 65535>>, width |-> 9],
      [value |-> <<65535, 65535, 65535, 65535>>, width |-> 9] }

WireInputs ==
    [previous_output : { OutPoint_new(Pattern(TxidLen, 0), <<772, 258>>) },
     prefix : WireInputForms,
     payload : { Pattern(1, 170) },
     sequence : { <<772, 258>> }]

WireInputBytes(w) ==
    OutPoint_to_bytes(w.previous_output) \o FormBytes(w.prefix) \o w.payload \o
    u32_to_le_bytes(w.sequence)

WireInputComplete(w) == w.prefix.value = U64(Len(w.payload))

RECURSIVE WireInputsBytes(_)
WireInputsBytes(ws) ==
    IF ws = <<>> THEN <<>>
    ELSE WireInputBytes(Head(ws)) \o WireInputsBytes(Tail(ws))

CountForms ==
    { [value |-> U64(0), width |-> 3], [value |-> U64(1), width |-> 1],
      [value |-> U64(1), width |-> 5], [value |-> U64(2), width |-> 1],
      [value |-> U64(2), width |-> 9], [value |-> U64(3), width |-> 1],
      [value |-> <<65535, 65535, 65535, 65535>>, width |-> 9] }

\* A transaction on the wire: a count field that need not match what follows.
WireTransactions ==
    [version : { <<772, 258>> },
     count : CountForms,
     held : SeqsUpTo({ w \in WireInputs : w.prefix = [value |-> U64(1), width |-> 1] },
                     MaxHeld),
     last : SeqsUpTo(WireInputs, 1),
     lock_time : { <<65535, 65535>> }]

WireTransactionBytes(w) ==
    u32_to_le_bytes(w.version) \o FormBytes(w.count) \o
    WireInputsBytes(w.held) \o WireInputsBytes(w.last) \o
    u32_to_le_bytes(w.lock_time)

\* what a deserializer may hand to Txid's text constructor
TxidTexts ==
    { [kind |-> "str", str |-> hex_encode(Pattern(n, 9))] : n \in {0, 1, 31, 32, 33, 64} }
    \cup { [kind |-> "str", str |-> hex_encode([k \in 1..TxidLen |-> 171 + k])],
           [kind |-> "str", str |-> [k \in 1..64 |-> IF k % 2 = 0 THEN "F" ELSE "a"]],
           [kind |-> "str", str |-> [k \in 1..63 |-> "0"]],
           [kind |-> "str", str |-> [k \in 1..65 |-> "0"]],
           [kind |-> "str", str |-> [k \in 1..64 |-> IF k = 7 THEN "g" ELSE "1"]],
           [kind |-> "u64", str |-> <<>>] }

\* ------------------------------------------------------------------------
\* State
\* ------------------------------------------------------------------------

VARIABLES
    build,        \* the build the program was compiled as
    pc,           \* "idle", "encoded", "inputs", "done"
    ty,           \* the entity the call is about
    shape,        \* "honest": wire came from to_bytes; "wire": written by a peer
    edit,         \* "none", "truncated", "extended"
    orig,         \* the value encoded, or the wire form written
    wire,         \* the byte buffer
    text,         \* the deserializer's input, for Txid
    ret,          \* the decode's result
    offset,       \* BitcoinTransaction::from_bytes: locals
    version,
    input_count,
    inputs,
    i             \* loop iterations begun (the range's cursor)

vars == <<build, pc, ty, shape, edit, orig, wire, text, ret,
          offset, version, input_count, inputs, i>>

codec == <<offset, version, input_count, inputs, i>>

NoValue == [none |-> TRUE]

NoRet == [tag |-> "None"]

Init ==
    /\ build \in Builds
    /\ pc = "idle"
    /\ ty = "none"
    /\ shape = "none"
    /\ edit = "none"
    /\ orig = NoValue
    /\ wire = <<>>
    /\ text = [kind |-> "none", str |-> <<>>]
    /\ ret = NoRet
    /\ offset = 0
    /\ version = <<0, 0>>
    /\ input_count = CompactSize_new(U64(0))
    /\ inputs = <<>>
    /\ i = 0

\* ------------------------------------------------------------------------
\* Encoding, and what may happen to a buffer before it is decoded
\* ------------------------------------------------------------------------

Put(t, s, v, bytes) ==
    /\ pc' = "encoded"
    /\ ty' = t
    /\ shape' = s
    /\ orig' = v
    /\ wire' = bytes
    /\ UNCHANGED <<build, edit, text, ret, codec>>

Encode_CompactSize ==
    /\ pc = "idle"
    /\ \E v \in U64Vals :
           Put("CompactSize", "honest", CompactSize_new(v),
               CompactSize_to_bytes(CompactSize_new(v)))

Encode_OutPoint ==
    /\ pc = "idle"
    /\ \E v \in OutPoints : Put("OutPoint", "honest", v, OutPoint_to_bytes(v))

Encode_Script ==
    /\ pc = "idle"
    /\ \E v \in Scripts \cup LongScripts : Put("Script", "honest", v, Script_to_bytes(v))

Encode_TransactionInput ==
    /\ pc = "idle"
    /\ \E v \in TransactionInputs :
           Put("TransactionInput", "honest", v, TransactionInput_to_bytes(v))

Encode_BitcoinTransaction ==
    /\ pc = "idle"
    /\ \E v \in BitcoinTransactions :
           Put("BitcoinTransaction", "honest", v, BitcoinTransaction_to_bytes(v))

Receive_CompactSize ==
    /\ pc = "idle"
    /\ \E f \in CSForms : Put("CompactSize", "wire", f, FormBytes(f))

Receive_Script ==
    /\ pc = "idle"
    /\ \E w \in WireScripts : Put("Script", "wire", w, WireScriptBytes(w))

Receive_TransactionInput ==
    /\ pc = "idle"
    /\ \E w \in WireInputs : Put("TransactionInput", "wire", w, WireInputBytes(w))

Receive_BitcoinTransaction ==
    /\ pc = "idle"
    /\ \E w \in WireTransactions :
           Put("BitcoinTransaction", "wire", w, WireTransactionBytes(w))

Truncate ==
    /\ pc = "encoded" /\ ty # "Txid"
    /\ edit = "none"
    /\ \E n \in 0..(Len(wire) - 1) : wire' = SubSeq(wire, 1, n)
    /\ edit' = "truncated"
    /\ UNCHANGED <<build, pc, ty, shape, orig, text, ret, codec>>

Extend ==
    /\ pc = "encoded" /\ ty # "Txid"
    /\ edit = "none"
    /\ \E x \in Trailings : wire' = wire \o x
    /\ edit' = "extended"
    /\ UNCHANGED <<build, pc, ty, shape, orig, text, ret, codec>>

\* ------------------------------------------------------------------------
\* Decoding
\* ------------------------------------------------------------------------

Return(r) ==
    /\ pc' = "done"
    /\ ret' = r

Decode_CompactSize ==
    /\ pc = "encoded" /\ ty = "CompactSize"
    /\ Return(CompactSize_from_bytes(wire))
    /\ UNCHANGED <<build, ty, shape, edit, orig, wire, text, codec>>

Decode_OutPoint ==
    /\ pc = "encoded" /\ ty = "OutPoint"
    /\ Return(OutPoint_from_bytes(wire))
    /\ UNCHANGED <<build, ty, shape, edit, orig, wire, text, codec>>

Decode_Script ==
    /\ pc = "encoded" /\ ty = "Script"
    /\ Return(Script_from_bytes(wire, build))
    /\ UNCHANGED <<build, ty, shape, edit, orig, wire, text, codec>>

Decode_TransactionInput ==
    /\ pc = "encoded" /\ ty = "TransactionInput"
    /\ Return(TransactionInput_from_bytes(wire, build))
    /\ UNCHANGED <<build, ty, shape, edit, orig, wire, text, codec>>

\* BitcoinTransaction::from_bytes up to the loop: version and input count
ParseHeader ==
    /\ pc = "encoded" /\ ty = "BitcoinTransaction"
    /\ IF Len(wire) < 4
       THEN Return(Err(InsufficientBytes)) /\ UNCHANGED codec
       ELSE LET c == CompactSize_from_bytes(Slice(wire, 4, Len(wire))) IN
            IF c.tag # "Ok"
            THEN Return(c) /\ UNCHANGED codec
            ELSE /\ pc' = "inputs"
                 /\ version' = u32_from_le_bytes(<<At(wire, 0), At(wire, 1),
                                                   At(wire, 2), At(wire, 3)>>)
                 /\ input_count' = c.value
                 /\ offset' = 4 + c.consumed
                 /\ inputs' = <<>>
                 /\ i' = 0
                 /\ ret' = ret
    /\ UNCHANGED <<build, ty, shape, edit, orig, wire, text>>

\* a loop that collects the inputs in reverse
ParseInput_prepend ==
    /\ pc = "inputs"
    /\ U64Lt(U64(i), input_count.value)
    /\ i' = i + 1
    /\ LET r == TransactionInput_from_bytes(Slice(wire, offset, Len(wire)), build) IN
       IF r.tag # "Ok"
       THEN Return(r) /\ UNCHANGED <<offset, inputs>>
       ELSE /\ inputs' = <<r.value>> \o inputs
            /\ offset' = offset + r.consumed
            /\ UNCHANGED <<pc, ret>>
    /\ UNCHANGED <<build, ty, shape, edit, orig, wire, text, version, input_count>>

\* one iteration of `for _ in 0..input_count.value`
ParseInput ==
    /\ pc = "inputs"
    /\ U64Lt(U64(i), input_count.value)
    /\ i' = i + 1
    /\ LET r == TransactionInput_from_bytes(Slice(wire, offset, Len(wire)), build) IN
       IF r.tag # "Ok"
       THEN Return(r) /\ UNCHANGED <<offset, inputs>>
       ELSE /\ inputs' = Append(inputs, r.value)
            /\ offset' = offset + r.consumed
            /\ UNCHANGED <<pc, ret>>
    /\ UNCHANGED <<build, ty, shape, edit, orig, wire, text, version, input_count>>

\* a decoder that wants the buffer to end with the lock time
ParseLockTime_exact_length ==
    /\ pc = "inputs"
    /\ ~U64Lt(U64(i), input_count.value)
    /\ IF Len(wire) # offset + 4
       THEN Return(Err(InsufficientBytes))
       ELSE Return(Ok(BitcoinTransaction_new(
                          version, inputs,
                          u32_from_le_bytes(<<At(wire, offset), At(wire, offset + 1),
                                              At(wire, offset + 2), At(wire, offset + 3)>>)),
                      offset + 4))
    /\ UNCHANGED <<build, ty, shape, edit, orig, wire, text, codec>>

\* the range is exhausted: lock time, and the result
ParseLockTime ==
    /\ pc = "inputs"
    /\ ~U64Lt(U64(i), input_count.value)
    /\ IF Len(wire) < offset + 4
       THEN Return(Err(InsufficientBytes))
       ELSE Return(Ok(BitcoinTransaction_new(
                          version, inputs,
                          u32_from_le_bytes(<<At(wire, offset), At(wire, offset + 1),
                                              At(wire, offset + 2), At(wire, offset + 3)>>)),
                      offset + 4))
    /\ UNCHANGED <<build, ty, shape, edit, orig, wire, text, codec>>

\* ------------------------------------------------------------------------
\* Txid text form
\* ------------------------------------------------------------------------

Serialize_Txid ==
    /\ pc = "idle"
    /\ \E t \in Txids :
        /\ orig' = t
        /\ text' = Txid_serialize(t)
    /\ pc' = "encoded"
    /\ ty' = "Txid"
    /\ shape' = "honest"
    /\ UNCHANGED <<build, edit, wire, ret, codec>>

Receive_Txid ==
    /\ pc = "idle"
    /\ \E t \in TxidTexts :
        /\ orig' = t
        /\ text' = t
    /\ pc' = "encoded"
    /\ ty' = "Txid"
    /\ shape' = "wire"
    /\ UNCHANGED <<build, edit, wire, ret, codec>>

Deserialize_Txid ==
    /\ pc = "encoded" /\ ty = "Txid"
    /\ Return(Txid_deserialize(text))
    /\ UNCHANGED <<build, ty, shape, edit, orig, wire, text, codec>>

Next ==
    \/ Encode_CompactSize
    \/ Encode_OutPoint
    \/ Encode_Script
    \/ Encode_TransactionInput
    \/ Encode_BitcoinTransaction
    \/ Receive_CompactSize
    \/ Receive_Script
    \/ Receive_TransactionInput
    \/ Receive_BitcoinTransaction
    \/ Truncate
    \/ Extend
    \/ Decode_CompactSize
    \/ Decode_OutPoint
    \/ Decode_Script
    \/ Decode_TransactionInput
    \/ ParseHeader
    \/ ParseInput
    \/ ParseLockTime
    \/ Serialize_Txid
    \/ Receive_Txid
    \/ Deserialize_Txid

Spec == Init /\ [][Next]_vars

\* ------------------------------------------------------------------------
\* Properties
\* ------------------------------------------------------------------------

Done(t) == pc = "done" /\ ty = t

Binary == {"CompactSize", "OutPoint", "Script", "TransactionInput", "BitcoinTransaction"}

\* the least class a value fits
MinWidth(value) == CHOOSE w \in Width :
    FitsWidth(value, w) /\ \A u \in Width : FitsWidth(value, u) => w <= u

\* the width a first byte announces
MarkerWidth(b) == IF b <= 252 THEN 1 ELSE IF b = 253 THEN 3 ELSE IF b = 254 THEN 5 ELSE 9

\* C1: round trip.  Decoding the unmodified output of to_bytes gives back the
\* value that was encoded and consumes the whole encoding, for CompactSize,
\* OutPoint, Script, TransactionInput and BitcoinTransaction.
C1_RoundTrip ==
    (pc = "done" /\ ty \in Binary /\ shape = "honest" /\ edit = "none")
        => ret = Ok(orig, Len(wire))

C1_Witness ==
    /\ Done("BitcoinTransaction") /\ shape = "honest" /\ edit = "none"
    /\ Len(orig.inputs) = 2
    /\ orig.inputs[1] # orig.inputs[2]
    /\ ret.tag = "Ok"

\* C2: CompactSize::to_bytes writes the shortest of the four classes: the
\* value itself up to 252, 0xFD and 2 little-endian bytes up to 65535, 0xFE
\* and 4 up to 4294967295, 0xFF and 8 above; the boundary values encode as
\* the specification lists them.
C2_MinimalClass ==
    (pc = "encoded" /\ ty = "CompactSize" /\ shape = "honest" /\ edit = "none")
        => /\ Len(wire) = MinWidth(orig.value)
           /\ wire = FormBytes([value |-> orig.value, width |-> MinWidth(orig.value)])
           /\ orig.value = U64(252) => wire = <<252>>
           /\ orig.value = U64(253) => wire = <<253, 253, 0>>
           /\ orig.value = <<65535, 0, 0, 0>> => wire = <<253, 255, 255>>
           /\ orig.value = <<0, 1, 0, 0>> => wire = <<254, 0, 0, 1, 0>>
           /\ orig.value = <<65535, 65535, 0, 0>> => wire = <<254, 255, 255, 255, 255>>
           /\ orig.value = <<0, 0, 1, 0>> => wire = <<255, 0, 0, 0, 0, 1, 0, 0, 0>>

C2_Witness ==
    /\ pc = "encoded" /\ ty = "CompactSize" /\ shape = "honest"
    /\ orig.value = <<0, 1, 0, 0>>
    /\ Len(wire) = 5

\* C3: Script::from_bytes answers InsufficientBytes for every buffer whose
\* length prefix decodes and declares more payload than the buffer holds
\* behind it, whatever the declared length.
C3_DeclaredLengthChecked ==
    (Done("Script") /\ shape = "wire" /\ Len(wire) >= orig.prefix.width
        /\ U64Lt(U64(Len(wire) - orig.prefix.width), orig.prefix.value))
        => ret = Err(InsufficientBytes)

\* C4: truncation.  Decoding any strict prefix of a transaction's encoding
\* fails with InsufficientBytes.
C4_TruncationDetected ==
    (Done("BitcoinTransaction") /\ shape = "honest" /\ edit = "truncated")
        => ret = Err(InsufficientBytes)

\* the cut falls inside the second input's script payload
C4_Witness ==
    /\ Done("BitcoinTransaction") /\ shape = "honest" /\ edit = "truncated"
    /\ Len(orig.inputs) = 2
    /\ Len(orig.inputs[1].script_sig.bytes) = 1
    /\ Len(orig.inputs[2].script_sig.bytes) = 2
    /\ Len(wire) = 5 + 42 + 36 + 1 + 1
    /\ ret = Err(InsufficientBytes)

\* C5: no decode of any buffer aborts: each returns a value or a BitcoinError.
C5_NoPanic ==
    (pc = "done" /\ ty \in Binary) => ret.tag \in {"Ok", "Err"}

\* C6: trailing bytes.  Decoding a transaction's encoding followed by extra
\* bytes gives the transaction and the length of its encoding, which is less
\* than the buffer's.
C6_TrailingTolerated ==
    (Done("BitcoinTransaction") /\ shape = "honest" /\ edit = "extended")
        => /\ ret = Ok(orig, Len(BitcoinTransaction_to_bytes(orig)))
           /\ ret.consumed < Len(wire)

C6_Witness ==
    /\ Done("BitcoinTransaction") /\ shape = "honest" /\ edit = "extended"
    /\ Len(orig.inputs) = 1
    /\ Len(wire) = Len(BitcoinTransaction_to_bytes(orig)) + 2
    /\ ret.tag = "Ok"

\* the form a CompactSize buffer was written in
FormOf(v, s) == IF s = "wire" THEN v ELSE [value |-> v.value, width |-> MinWidth(v.value)]

\* C7: CompactSize::from_bytes goes by the first byte alone: a buffer holding
\* the whole of a form, minimal or not, decodes to the form's value and
\* width; anything shorter fails with InsufficientBytes; nothing else fails.
C7_DecodeByMarker ==
    Done("CompactSize")
        => LET f == FormOf(orig, shape) IN
           IF Len(wire) >= f.width
           THEN ret = Ok(CompactSize_new(f.value), f.width)
           ELSE ret = Err(InsufficientBytes)

\* FD 0A 00 decodes to 10
C7_Witness ==
    /\ Done("CompactSize") /\ shape = "wire"
    /\ wire = <<253, 10, 0>>
    /\ ret = Ok(CompactSize_new(U64(10)), 3)

\* the inputs a wire transaction's buffer holds whole: the complete ones
\* before the first that is not, as far as the buffer reaches
RECURSIVE HeldWhole(_, _, _)
HeldWhole(ws, pos, len) ==
    IF ws = <<>> \/ ~WireInputComplete(Head(ws))
       \/ pos + Len(WireInputBytes(Head(ws))) > len
    THEN 0
    ELSE 1 + HeldWhole(Tail(ws), pos + Len(WireInputBytes(Head(ws))), len)

Held == HeldWhole(orig.held \o orig.last, 4 + orig.count.width, Len(wire))

\* C8: when the count field declares more inputs than the buffer holds whole,
\* the decode fails with InsufficientBytes in the iteration after the last
\* whole input and runs no further iteration.
C8_DeclaredCountBound ==
    (Done("BitcoinTransaction") /\ shape = "wire"
        /\ Len(wire) >= 4 + orig.count.width
        /\ U64Lt(U64(Held), orig.count.value))
        => /\ ret = Err(InsufficientBytes)
           /\ i = Held + 1

InputEnd(input, pos) ==
    pos + 36 + MarkerWidth(At(wire, pos + 36)) + Len(input.script_sig.bytes) + 4

RECURSIVE InputsEnd(_, _)
InputsEnd(ins, pos) ==
    IF ins = <<>> THEN pos ELSE InputsEnd(Tail(ins), InputEnd(Head(ins), pos))

RECURSIVE InWireOrder(_, _)
InWireOrder(ins, pos) ==
    \/ ins = <<>>
    \/ LET input == Head(ins)
           w == MarkerWidth(At(wire, pos + 36)) IN
       /\ input.previous_output.txid = Slice(wire, pos, pos + 32)
       /\ input.script_sig.bytes =
              Slice(wire, pos + 36 + w, pos + 36 + w + Len(input.script_sig.bytes))
       /\ InWireOrder(Tail(ins), InputEnd(input, pos))

\* the count a transaction buffer declares
DeclaredCount == IF shape = "wire" THEN orig.count.value ELSE U64(Len(orig.inputs))

\* C10: a successful BitcoinTransaction::from_bytes returns as many inputs as
\* the count field says, in the order they stand on the wire, and a consumed
\* count of 4 + count prefix + each input's 36 + script prefix + payload + 4,
\* + 4, which is within the buffer.
C10_CumulativeOffset ==
    (Done("BitcoinTransaction") /\ ret.tag = "Ok")
        => LET first == 4 + MarkerWidth(At(wire, 4)) IN
           /\ U64(Len(ret.value.inputs)) = DeclaredCount
           /\ input_count.value = DeclaredCount
           /\ ret.consumed = InputsEnd(ret.value.inputs, first) + 4
           /\ ret.consumed <= Len(wire)
           /\ InWireOrder(ret.value.inputs, first)

\* two inputs behind a nine-byte count, the second with a three-byte prefix
C10_Witness ==
    /\ Done("BitcoinTransaction") /\ shape = "wire" /\ ret.tag = "Ok"
    /\ orig.count = [value |-> U64(2), width |-> 9]
    /\ Len(ret.value.inputs) = 2
    /\ At(wire, 4 + 9 + 42 + 36) = 253
    /\ ret.consumed = 4 + 9 + 42 + 44 + 4

=============================================================================
